---- MODULE Spec2Model ----
(***************************************************************************)
(* Model of the resource pool of claude_agent_toolkit                      *)
(* (src/src/claude_agent_toolkit/agent/dependency_pool.py, DependencyPool),*)
(* of the SharedDependencyManager that hands the pools out (same file) and *)
(* of the EventBus (system/observability.py) and of the SandboxManager    *)
(* (system/sandbox.py).  Spec follows one new pool and SpecWarm a pool     *)
(* with idle instances; SpecMgr, SpecRace, SpecBusy and SpecTask follow    *)
(* the manager; SpecBus the bus of one caller and SpecThreads the bus of   *)
(* several publishing threads; SpecSandbox the sandbox manager.  SpecLive  *)
(* is Spec with one followed call and fairness, for termination.           *)
(* Each specification leaves the other components as constructed.          *)
(*                                                                         *)
(* One pool is shared by coroutines that call acquire, release and         *)
(* cleanup_expired; every one of them runs its body under the pool's       *)
(* asyncio.Lock, which hands the lock to waiters in FIFO order.  acquire   *)
(* keeps the lock while it waits on the idle queue.  Coroutines carry no   *)
(* identity of their own: a call in flight is the record of its arguments. *)
(* Time is a discrete clock; a step that is ready to run (a lock           *)
(* hand-over, an expired wait_for) runs before the clock advances.         *)
(*                                                                         *)
(* The abstract primitives are nondeterministic: validate_instance answers *)
(* either way at each call, create_instance succeeds or raises.            *)
(* destroy_instance does not raise (the concrete pools catch everything).  *)
(* Of the DependencyInstance record only the owning agent_id is kept; the  *)
(* use counter and the wall-clock stamps are read by no pool operation.    *)
(***************************************************************************)
EXTENDS Integers, Sequences, FiniteSets, TLC

\* ------------------------------------------------------------------ bounds
MaxCalls == 2        \* calls in flight at once (suspended on the lock or in wait_for)
NAgents == 2         \* distinct agent ids
MaxCreated == 2      \* create_instance calls in one run
MaxTime == 2         \* last clock value
MaxCapacity == 2     \* largest max_instances a pool is constructed with
NNames == 2          \* distinct dependency names
NPoolObjs == 2       \* DependencyPool objects that are handed to register_pool
MaxLoops == 2        \* start_cleanup_task calls in one run
MaxBuffer == 2       \* largest buffer_size an EventBus is constructed with
MaxPublished == 4    \* events published in one run
NHandlers == 2       \* distinct subscriber callables
MaxSubs == 2         \* subscribe calls in one run
MaxManaged == 1      \* create_instance calls of the manager's pools in one run
MaxFresh == 1        \* create_instance calls in one run of a pool that was used before
NThreads == 2        \* threads that publish to the event bus
MaxLoad == 2         \* largest CPU / memory reading of the resource monitor
MaxDepth == 2        \* publish calls of one thread nested in each other
MaxSessions == 2     \* create_session calls that return a session
MaxSpawned == 2      \* processes spawned in one run of the model

Agents == 1..NAgents
\* timeouts and maximum ages that the clock can tell apart
Timeouts == 1..(MaxTime - 1)
Ages == 0..(MaxTime - 1)
NoAgent == 0         \* agent_id=None of the cleanup event
NoInst == 0

VARIABLES
    max_instances,   \* self.max_instances, fixed at construction
    now,             \* time.time() / datetime.now()
    available,       \* self._available: FIFO of instances
    in_use,          \* self._in_use: agent_id -> instance
    instance_refs,   \* self._instance_refs: instance -> owning agent_id
    creation_times,  \* self._creation_times: instance -> creation time
    created,         \* number of instances create_instance has returned
    warm,            \* how many of them it had returned before the run began
    lock_waiters,    \* asyncio.Lock._waiters, FIFO: the calls suspended on the lock
    waiting,         \* the acquire inside wait_for, which holds the lock, or NoCall
    pre,             \* pool state when the locked section of the step just taken was entered
    last,            \* the call that the step just taken completed, if it completed one
    emitted,         \* events that call handed to event_bus.publish
    rejected         \* instances for which validate_instance has answered False

\* SharedDependencyManager and the pools registered with it
VARIABLES
    pools,               \* self._pools: the (name, pool) items in insertion order
    agent_dependencies,  \* self._agent_dependencies: agent_id -> set of names
    pool_objs,           \* the DependencyPool objects: their fields, lock queue and waiter
    running,             \* the release_agent_dependencies call between two of its releases
    cleanup_task,        \* self._cleanup_task: the loop it refers to, or NoTask
    loops,               \* the cleanup_loop tasks created by start_cleanup_task
    stops,               \* stop_cleanup_task calls inside `await self._cleanup_task`
    mlast,               \* the manager call that the step just taken completed
    memitted             \* events the pools published in that step

\* EventBus
VARIABLES
    buffer_size,     \* self._buffer_size, fixed at construction
    buffer,          \* self._buffer
    subs,            \* self._subs: event type -> list of handlers
    published,       \* every event handed to publish, in order
    blast,           \* the bus call that the step just taken completed
    entering,        \* per thread: the event of its publish call that has not taken the lock yet
    frames           \* the publish calls of one thread that have not returned, innermost last

\* SandboxManager
VARIABLES
    strategies,      \* self._strategies, fixed at construction
    srun,            \* the run that is waiting in process.communicate, with the monitor's maxima
    proc,            \* the process that the latest subprocess.Popen returned
    spawned,         \* number of subprocess.Popen calls that returned a process
    slast,           \* the sandbox call that the step just taken completed
    semitted,        \* the events that the latest run published
    sessions         \* the SandboxSession objects create_session returned, with what
                     \* became of each: created, running, succeeded, failed

poolvars == <<available, in_use, instance_refs, creation_times, created>>
poolside == <<max_instances, now, available, in_use, instance_refs, creation_times, created,
              warm, lock_waiters, waiting, pre, last, emitted, rejected>>
mgrvars == <<pools, agent_dependencies, pool_objs, running, mlast, memitted>>
taskvars == <<cleanup_task, loops, stops>>
busvars == <<buffer_size, buffer, subs, published, blast, entering, frames>>
sbvars == <<strategies, srun, proc, spawned, slast, semitted, sessions>>
sbvars_but_slast == <<strategies, srun, proc, spawned, semitted, sessions>>
\* the pool's variables but the clock
poolrest == <<max_instances, available, in_use, instance_refs, creation_times, created,
              warm, lock_waiters, waiting, pre, last, emitted, rejected>>
vars == <<poolside, mgrvars, taskvars, busvars, sbvars>>

\* ------------------------------------------------------------- data helpers
Range(f) == {f[x] : x \in DOMAIN f}
Drop(f, k) == [x \in DOMAIN f \ {k} |-> f[x]]
Put(f, k, v) == [x \in DOMAIN f \cup {k} |-> IF x = k THEN v ELSE f[x]]
SeqRange(s) == {s[k] : k \in 1..Len(s)}

\* The pool's fields as one value.
Pool == [available |-> available, in_use |-> in_use, instance_refs |-> instance_refs,
         creation_times |-> creation_times, created |-> created]

EmptyFn == [x \in {} |-> 0]
Without(f, S) == [x \in DOMAIN f \ S |-> f[x]]

\* self.dependency_type of the pools (every pool passes its own to its events)
DependencyType == "dependency"

\* (variant: the idle count still includes the instance that was taken)
PoolEventCountsHandedOut(action, agent, P, n) ==
    [event_type |-> "dependency.pool", action |-> action,
     dependency_type |-> DependencyType, agent_id |-> agent,
     in_use |-> Cardinality(DOMAIN P.in_use), available |-> Len(P.available) + 1,
     expired_count |-> n]

\* DependencyPoolEvent(action=..., dependency_type=self.dependency_type, agent_id=...,
\*                     in_use=len(self._in_use), available=self._available.qsize(),
\*                     data={"expired_count": n})
PoolEvent(action, agent, P, n) ==
    [event_type |-> "dependency.pool", action |-> action,
     dependency_type |-> DependencyType, agent_id |-> agent,
     in_use |-> Cardinality(DOMAIN P.in_use), available |-> Len(P.available),
     expired_count |-> n]

NoPool == [available |-> <<>>, in_use |-> EmptyFn, instance_refs |-> EmptyFn,
           creation_times |-> EmptyFn, created |-> 0]
NoCall == [op |-> "none", agent |-> NoAgent, param |-> 0, called |-> 0, start |-> 0,
           steady |-> FALSE, observed |-> FALSE]
NoLast == [op |-> "none", agent |-> NoAgent, outcome |-> "none",
           inst |-> NoInst, param |-> 0, elapsed |-> 0,
           steady |-> FALSE, held |-> NoInst, count |-> 0,
           fresh |-> {}, passed |-> {}, failed |-> {}]

\* What a locked section does: the pool it leaves, how the call ends ("ok", an
\* exception name, or "wait" when acquire goes on to wait_for), the instance returned,
\* the events published, and the instances created / validated / rejected on the way.
Res(P, outcome, inst, events, fresh, passed, failed) ==
    [pool |-> P, outcome |-> outcome, inst |-> inst, events |-> events,
     fresh |-> fresh, passed |-> passed, failed |-> failed, held |-> NoInst, count |-> 0]

\* ------------------------------------------------------------ acquire
\* (variant: the popped instance is handed out whatever validate_instance answers)
AcceptIdleAlways(v) == TRUE

\* `if await self.validate_instance(instance):` of acquire; v is the answer
AcceptIdle(v) == v

\* (variant: the capacity test is off by one)
CanCreateOffByOne(P) == Cardinality(DOMAIN P.in_use) <= max_instances

\* `if len(self._in_use) < self.max_instances:`
CanCreate(P) == Cardinality(DOMAIN P.in_use) < max_instances

\* self._in_use[agent_id] = instance; self._instance_refs[instance].touch();
\* event_bus.publish(acquire); return instance.  touch() raises KeyError when the
\* instance has no metadata, after the in-use map was written.
Reuse(P, a, i, passed, failed) ==
    LET P1 == [P EXCEPT !.in_use = Put(@, a, i)]
    IN  IF i \in DOMAIN P.instance_refs
        THEN Res(P1, "ok", i, <<PoolEvent("acquire", a, P1, 0)>>, {}, passed, failed)
        ELSE Res(P1, "KeyError", NoInst, <<>>, {}, passed, failed)

\* await self.destroy_instance(instance); del self._instance_refs[instance];
\* del self._creation_times[instance].  The first del raises KeyError when the
\* instance has no metadata.
Discard(P, i) ==
    IF i \in DOMAIN P.instance_refs
    THEN [pool |-> [P EXCEPT !.instance_refs = Drop(@, i), !.creation_times = Drop(@, i)],
          raised |-> FALSE]
    ELSE [pool |-> P, raised |-> TRUE]

\* (variant: the agent is entered in the in-use map before create_instance is called)
CreateAssignsFirst(P, a, ok, failed) ==
    LET i == P.created + 1
        P1 == [P EXCEPT !.created = i, !.in_use = Put(@, a, i),
                        !.instance_refs = Put(@, i, a),
                        !.creation_times = Put(@, i, now)]
    IN  IF ok
        THEN Res(P1, "ok", i, <<PoolEvent("acquire", a, P1, 0)>>, {i}, {}, failed)
        ELSE Res([P EXCEPT !.in_use = Put(@, a, i)], "CreateError", NoInst, <<>>, {}, {},
                 failed)

\* instance = await self.create_instance() ... return instance; ok is whether
\* create_instance returned.
Create(P, a, ok, failed) ==
    LET i == P.created + 1
        P1 == [P EXCEPT !.created = i, !.in_use = Put(@, a, i),
                        !.instance_refs = Put(@, i, a),
                        !.creation_times = Put(@, i, now)]
    IN  IF ok
        THEN Res(P1, "ok", i, <<PoolEvent("acquire", a, P1, 0)>>, {i}, {}, failed)
        ELSE Res(P, "CreateError", NoInst, <<>>, {}, {}, failed)

\* acquire from `async with self._lock` up to the wait_for: reuse the head of the
\* idle queue, else create, else go on to wait.
AcquireLocked(P, a, v, ok) ==
    LET popped == P.available # <<>>
        i == Head(P.available)
        P0 == IF popped THEN [P EXCEPT !.available = Tail(@)] ELSE P
        failed == IF popped /\ ~v THEN {i} ELSE {}
        passed == IF popped /\ v THEN {i} ELSE {}
    IN  IF popped /\ AcceptIdle(v)
        THEN Reuse(P0, a, i, passed, failed)
        ELSE LET d == IF popped THEN Discard(P0, i) ELSE [pool |-> P0, raised |-> FALSE]
             IN  IF d.raised THEN Res(d.pool, "KeyError", NoInst, <<>>, {}, passed, failed)
                 ELSE IF CanCreate(d.pool) THEN Create(d.pool, a, ok, failed)
                 ELSE Res(d.pool, "wait", NoInst, <<>>, {}, passed, failed)

\* wait_for returned an instance: validate it as above; a rejected instance is
\* destroyed and the call falls through to `raise TimeoutError`.
AcquireWoken(P, a, v) ==
    LET i == Head(P.available)
        P0 == [P EXCEPT !.available = Tail(@)]
        failed == IF v THEN {} ELSE {i}
        passed == IF v THEN {i} ELSE {}
    IN  IF AcceptIdle(v)
        THEN Reuse(P0, a, i, passed, failed)
        ELSE LET d == Discard(P0, i)
             IN  Res(d.pool, IF d.raised THEN "KeyError" ELSE "Timeout", NoInst, <<>>,
                     {}, passed, failed)

\* (variant: the timeout path publishes an acquire event)
AcquireTimedOutPublishes(P, a) ==
    Res(P, "Timeout", NoInst, <<PoolEvent("acquire", a, P, 0)>>, {}, {}, {})

\* except asyncio.TimeoutError: pass; raise TimeoutError(...)
AcquireTimedOut(P, a) == Res(P, "Timeout", NoInst, <<>>, {}, {}, {})

\* ------------------------------------------------------------ release
\* (variant: the release event is published outside the `if`)
ReleaseUnheldPublishes(P, a) ==
    Res(P, "ok", NoInst, <<PoolEvent("release", a, P, 0)>>, {}, {}, {})

\* `if agent_id in self._in_use:` is false: nothing is done
ReleaseUnheld(P, a) == Res(P, "ok", NoInst, <<>>, {}, {}, {})

\* `if await self.validate_instance(instance):` of release
KeepOnRelease(v) == v

\* the body of release under the lock
Release(P, a, v) ==
    IF a \notin DOMAIN P.in_use THEN ReleaseUnheld(P, a)
    ELSE LET i == P.in_use[a]
             P0 == [P EXCEPT !.in_use = Drop(@, a)]
             failed == IF v THEN {} ELSE {i}
             passed == IF v THEN {i} ELSE {}
         IN  IF KeepOnRelease(v)
             THEN LET P1 == [P0 EXCEPT !.available = Append(@, i)]
                  IN  [Res(P1, "ok", NoInst, <<PoolEvent("release", a, P1, 0)>>,
                           {}, passed, failed) EXCEPT !.held = i]
             ELSE LET d == Discard(P0, i)
                  IN  IF d.raised
                      THEN [Res(d.pool, "KeyError", NoInst, <<>>, {}, passed, failed)
                               EXCEPT !.held = i]
                      ELSE [Res(d.pool, "ok", NoInst,
                                <<PoolEvent("release", a, d.pool, 0)>>, {}, passed, failed)
                               EXCEPT !.held = i]

\* ------------------------------------------------------------ cleanup_expired
\* `if (now - created_at).total_seconds() > max_age_seconds:`
Expired(P, max_age) ==
    {i \in DOMAIN P.creation_times : now - P.creation_times[i] > max_age}

\* (variant: the in-use test of cleanup_expired is dropped)
RemovableAlways(P, i) == TRUE

\* `if instance not in self._in_use.values():`
Removable(P, i) == i \notin Range(P.in_use)

\* the body of cleanup_expired under the lock
Cleanup(P, max_age) ==
    LET gone == {i \in Expired(P, max_age) : Removable(P, i)}
        P1 == [P EXCEPT !.instance_refs = Without(@, gone),
                        !.creation_times = Without(@, gone)]
        n == Cardinality(gone)
    IN  [Res(P1, "ok", NoInst,
             IF n > 0 THEN <<PoolEvent("cleanup", NoAgent, P1, n)>> ELSE <<>>,
             {}, {}, {}) EXCEPT !.count = n]

\* ------------------------------------------------- manager and bus: data
Names == 1..NNames
PoolObjs == 1..NPoolObjs
Handlers == 1..NHandlers
EventTypes == {"dependency.pool", "sandbox.exec"}
NoName == 0
NoPoolObj == 0       \* self._pools.get(name) is None
NoTask == 0          \* self._cleanup_task is None

\* a manager call in flight: its arguments, the names release_agent_dependencies
\* has still to release, and whether the agent was registered (with the name for
\* get_dependency, with names now dropped for register_agent) when it was made
NoMCall == [op |-> "none", agent |-> NoAgent, name |-> NoName, rest |-> {},
            had |-> FALSE]
NoMLast == [op |-> "none", agent |-> NoAgent, name |-> NoName, names |-> <<>>,
            pool |-> NoPoolObj, outcome |-> "none", inst |-> NoInst,
            had |-> FALSE, loop |-> NoTask, called |-> <<>>, due |-> <<>>]
NoBLast == [op |-> "none", event |-> 0, etype |-> "none", limit |-> 0,
            outcome |-> "none", bad |-> {}, called |-> <<>>, result |-> <<>>]

\* DependencyPool.__init__
FreshPool == [state |-> NoPool, waiting |-> NoMCall, lock_waiters |-> <<>>]

\* SharedDependencyManager.__init__
ManagerNew ==
    /\ pools = <<>>
    /\ agent_dependencies = EmptyFn
    /\ running = NoMCall
    /\ cleanup_task = NoTask
    /\ loops = <<>>
    /\ stops = <<>>
    /\ mlast = NoMLast
    /\ memitted = <<>>

\* sandbox data
StrategyNames == {"subprocess", "unknown"}
Loads == 0..MaxLoad
NoLimit == 0 - 1     \* memory_limit_mb = None
ExitCodes == {0, 1}
TimeoutExit == 0 - 1 \* exit_code = -1 of the timeout path
\* SandboxStrategyConfig(hard_cpu_limit_pct=c, memory_limit_mb=m)
StrategyConfig(c, m) == [hard_cpu_limit_pct |-> c, memory_limit_mb |-> m]
NoRun == [agent_id |-> NoAgent, strategy |-> "none", t0 |-> 0, max_cpu |-> 0,
          max_memory_mb |-> 0, session |-> 0]
NoSession == [agent_id |-> NoAgent, strategy |-> "none"]
NoSLast == [op |-> "none", agent_id |-> NoAgent, strategy |-> "none", outcome |-> "none",
            session |-> NoSession,
            path |-> "none", success |-> FALSE, stderr |-> "none", latency |-> 0,
            exit_code |-> 0, max_cpu |-> 0, max_memory_mb |-> 0]

\* SandboxManager.__init__ with the default configuration
SandboxNew ==
    /\ strategies = [n \in {"subprocess"} |-> StrategyConfig(MaxLoad - 1, NoLimit)]
    /\ srun = NoRun
    /\ proc = "none"
    /\ spawned = 0
    /\ slast = NoSLast
    /\ semitted = <<>>
    /\ sessions = <<>>

Threads == 1..NThreads
NoEvent == [id |-> 0, event_type |-> "none", caller |-> 0]

\* EventBus.__init__
BusNew ==
    /\ entering = [c \in Threads |-> NoEvent]
    /\ frames = <<>>
    /\ buffer = <<>>
    /\ subs = [t \in EventTypes |-> <<>>]
    /\ published = <<>>
    /\ blast = NoBLast

\* ------------------------------------------------------------ calls and the lock
\* DependencyPool.__init__ of the pool that Spec follows
PoolNew ==
    /\ warm = 0
    /\ available = <<>>
    /\ in_use = EmptyFn
    /\ instance_refs = EmptyFn
    /\ creation_times = EmptyFn
    /\ created = 0
    /\ lock_waiters = <<>>
    /\ waiting = NoCall
    /\ pre = NoPool
    /\ last = NoLast
    /\ emitted = <<>>
    /\ rejected = {}

Init ==
    /\ max_instances \in 1..MaxCapacity
    /\ now = 0
    /\ PoolNew
    /\ pool_objs = [p \in PoolObjs |-> FreshPool]
    /\ ManagerNew
    /\ buffer_size = MaxBuffer
    /\ BusNew
    /\ SandboxNew

SetPool(P) ==
    /\ available' = P.available
    /\ in_use' = P.in_use
    /\ instance_refs' = P.instance_refs
    /\ creation_times' = P.creation_times
    /\ created' = P.created

\* self._lock.locked(): every locked section but the wait of acquire is one step
Locked == waiting # NoCall

\* asyncio.Lock.acquire returns at once only when the lock is free and nobody waits
LockFree == ~Locked /\ lock_waiters = <<>>

InFlight == Len(lock_waiters) + (IF Locked THEN 1 ELSE 0)

\* no idle instance and no room to create one
Full == available = <<>> /\ ~CanCreate(Pool)

\* A release that took an instance from its holder ends the "full and never
\* released" stretch of every acquire in flight.
Unsteady(q) == [k \in 1..Len(q) |-> [q[k] EXCEPT !.steady = FALSE]]

\* Call c ends with result r; `async with` releases the lock on every exit path.
Finish(c, r, q) ==
    /\ waiting' = NoCall
    /\ lock_waiters' = IF c.op = "release" /\ r.held # NoInst THEN Unsteady(q) ELSE q
    /\ last' = [op |-> c.op, agent |-> c.agent, outcome |-> r.outcome,
                inst |-> r.inst, param |-> c.param,
                elapsed |-> now - c.called, steady |-> c.steady,
                held |-> r.held, count |-> r.count,
                fresh |-> r.fresh, passed |-> r.passed, failed |-> r.failed]

\* validate_instance is called on the popped idle instance and on the released one;
\* create_instance is called by acquire only.  Where a primitive is not called its
\* answer is immaterial and one value stands for it.
Answers(c) ==
    IF \/ c.op = "acquire" /\ available # <<>>
       \/ c.op = "release" /\ c.agent \in DOMAIN in_use
    THEN BOOLEAN ELSE {TRUE}
Returns(c) == IF c.op = "acquire" THEN BOOLEAN ELSE {TRUE}

\* create_instance calls that a run follows: MaxCreated of a new pool, MaxFresh more
\* than the ones made before the run of a pool that was used before
CreateBound == IF warm = 0 THEN MaxCreated ELSE warm + MaxFresh

\* Call c0 enters `async with self._lock` and runs up to its first wait; q is the
\* lock's queue without it.  start_time = time.time() is taken inside the lock.
Enter(c0, q) ==
    LET c == [c0 EXCEPT !.start = now]
    IN  /\ pre' = Pool
        /\ \E v \in Answers(c), ok \in Returns(c) :
             LET r == CASE c.op = "acquire" -> AcquireLocked(Pool, c.agent, v, ok)
                        [] c.op = "release" -> Release(Pool, c.agent, v)
                        [] c.op = "cleanup" -> Cleanup(Pool, c.param)
             IN  /\ r.pool.created <= CreateBound
                 /\ SetPool(r.pool)
                 /\ emitted' = r.events
                 /\ rejected' = rejected \cup r.failed
                 /\ IF r.outcome = "wait"
                    THEN /\ waiting' = c
                         /\ lock_waiters' = q
                         /\ last' = NoLast
                    ELSE Finish(c, r, q)

\* A step that completes no call: the record of the completed call is cleared, and
\* the entry snapshot is kept only while a waiting acquire is inside the lock.
NoCompletion ==
    /\ last' = NoLast
    /\ emitted' = IF Locked THEN emitted ELSE <<>>
    /\ pre' = IF Locked THEN pre ELSE NoPool

\* A call made while the lock is taken or awaited queues behind the other waiters.
Enqueue(c) ==
    /\ InFlight < MaxCalls
    /\ lock_waiters' = Append(lock_waiters, c)
    /\ NoCompletion
    /\ UNCHANGED <<poolvars, waiting, rejected>>

Invoke(c) ==
    /\ UNCHANGED <<max_instances, now, warm, mgrvars, taskvars, busvars, sbvars>>
    /\ IF LockFree THEN Enter(c, lock_waiters) ELSE Enqueue(c)

\* await pool.acquire(agent_id, timeout)
\* (o tells the call that a termination property follows from the others)
Acquires(o) ==
    \E a \in Agents, T \in Timeouts :
        Invoke([op |-> "acquire", agent |-> a, param |-> T, called |-> now,
                start |-> 0, steady |-> Full, observed |-> o])

AcquireCall == Acquires(FALSE)

\* await pool.release(agent_id)
Releases(o) ==
    \E a \in Agents :
        Invoke([op |-> "release", agent |-> a, param |-> 0, called |-> now,
                start |-> 0, steady |-> FALSE, observed |-> o])

ReleaseCall == Releases(FALSE)

\* await pool.cleanup_expired(max_age_seconds)
Cleanups(o) ==
    \E m \in Ages :
        Invoke([op |-> "cleanup", agent |-> NoAgent, param |-> m, called |-> now,
                start |-> 0, steady |-> FALSE, observed |-> o])

CleanupCall == Cleanups(FALSE)

\* The free lock is handed to its first waiter.
Granted ==
    /\ ~Locked
    /\ lock_waiters # <<>>
    /\ UNCHANGED <<max_instances, now, warm, mgrvars, taskvars, busvars, sbvars>>
    /\ Enter(Head(lock_waiters), Tail(lock_waiters))

\* asyncio.wait_for(self._available.get(), timeout - elapsed) ends: with an instance
\* when the idle queue holds one, with TimeoutError at the deadline otherwise.
WaitEnd ==
    /\ Locked
    /\ \E v \in (IF available # <<>> THEN BOOLEAN ELSE {TRUE}) :
         LET c == waiting
             r == IF available # <<>> THEN AcquireWoken(Pool, c.agent, v)
                  ELSE AcquireTimedOut(Pool, c.agent)
         IN  /\ available = <<>> => now >= c.start + c.param
             /\ SetPool(r.pool)
             /\ emitted' = emitted \o r.events
             /\ rejected' = rejected \cup r.failed
             /\ Finish(c, r, lock_waiters)
    /\ UNCHANGED <<max_instances, now, warm, pre, mgrvars, taskvars, busvars, sbvars>>

\* A step that can run now runs before the clock moves.
Urgent ==
    \/ ~Locked /\ lock_waiters # <<>>
    \/ Locked /\ (available # <<>> \/ now >= waiting.start + waiting.param)

Tick ==
    /\ now < MaxTime
    /\ ~Urgent
    /\ now' = now + 1
    /\ NoCompletion
    /\ UNCHANGED <<max_instances, warm, poolvars, lock_waiters, waiting, rejected,
                   mgrvars, taskvars, busvars, sbvars>>

Next ==
    \/ AcquireCall
    \/ ReleaseCall
    \/ CleanupCall
    \/ Granted
    \/ WaitEnd
    \/ Tick

Spec == Init /\ [][Next]_vars

\* SpecWarm follows a pool that has been used before: the agents acquired up to
\* max_instances instances at time 0 and released them all, so that the run begins
\* with these instances in the idle queue.
WarmPool(k) ==
    [available |-> [i \in 1..k |-> i], in_use |-> EmptyFn,
     instance_refs |-> [i \in 1..k |-> i], creation_times |-> [i \in 1..k |-> 0],
     created |-> k]

WarmInit ==
    /\ max_instances = MaxCapacity
    /\ now = MaxTime - 1
    /\ \E k \in {MaxCapacity} :
         /\ warm = k
         /\ available = WarmPool(k).available
         /\ in_use = WarmPool(k).in_use
         /\ instance_refs = WarmPool(k).instance_refs
         /\ creation_times = WarmPool(k).creation_times
         /\ created = WarmPool(k).created
    /\ lock_waiters = <<>>
    /\ waiting = NoCall
    /\ pre = NoPool
    /\ last = NoLast
    /\ emitted = <<>>
    /\ rejected = {}
    /\ pool_objs = [p \in PoolObjs |-> FreshPool]
    /\ ManagerNew
    /\ buffer_size = MaxBuffer
    /\ BusNew
    /\ SandboxNew

SpecWarm == WarmInit /\ [][Next]_vars

\* ------------------------------------------------------------ properties
Idle == SeqRange(available)
Held == Range(in_use)
Live == DOMAIN instance_refs
InUseCount == Cardinality(DOMAIN in_use)

\* an acquire or release suspended on the lock
Queued(op) == {k \in 1..Len(lock_waiters) : lock_waiters[k].op = op}

\* C1: the in-use map never holds more than max_instances entries, whatever the
\* interleaving of acquire, release and cleanup_expired.
C1_InUseBounded == InUseCount <= max_instances

\* C1 witness: the pool is at capacity while one acquire waits inside wait_for and
\* another call is suspended on the lock.
C1_Witness == InUseCount = max_instances /\ Locked /\ Queued("acquire") # {}

\* C2 (as claimed): an acquire waiting on a full pool does not end in Timeout when
\* a holder called release during the wait, before the deadline.  Here the acquire
\* has just timed out while such a release is still suspended on the pool lock.
C2_WaiterGetsReleasedInstance ==
    (last.op = "acquire" /\ last.outcome = "Timeout")
        => ~ \E k \in Queued("release") :
                /\ lock_waiters[k].agent \in DOMAIN in_use
                /\ in_use[lock_waiters[k].agent] \in Live
                /\ lock_waiters[k].called < now
                /\ lock_waiters[k].called >= now - last.param

\* C3 (as claimed): every live instance is in exactly one of the idle queue and
\* the in-use map.
C3_ExactlyOneHolder ==
    \A i \in Live : (i \in Idle) # (i \in Held)

\* C4: an instance returned by acquire was created or validated during that call,
\* and an instance that failed validation is destroyed and is in nobody's hands.
C4_ReturnedIsFreshOrValidated ==
    /\ (last.op = "acquire" /\ last.outcome = "ok")
          => /\ last.inst \in last.fresh \cup last.passed
             /\ last.inst \notin last.failed
             /\ last.inst \in Live
             /\ in_use[last.agent] = last.inst
    /\ rejected \cap (Held \cup Idle \cup Live) = {}

\* C4 witness: an acquire has just returned an idle instance that passed validation,
\* after some instance had been rejected.
C4_Witness ==
    /\ last.op = "acquire" /\ last.outcome = "ok"
    /\ last.inst \in last.passed
    /\ rejected # {}

\* C5 (as claimed): an acquire on a pool that was full when it was called and has
\* not been released since fails with Timeout exactly `timeout` after the call.
C5_TimeoutAtDeadline ==
    (last.op = "acquire" /\ last.outcome = "Timeout" /\ last.steady)
        => last.elapsed = last.param

\* C6: cleanup_expired leaves every in-use instance in the in-use map, with its
\* metadata and its creation time, whatever its age.
C6_CleanupSparesInUse ==
    last.op = "cleanup"
        => /\ in_use = pre.in_use
           /\ \A i \in Range(pre.in_use) \cap DOMAIN pre.instance_refs :
                /\ i \in Live
                /\ instance_refs[i] = pre.instance_refs[i]
                /\ creation_times[i] = pre.creation_times[i]

\* C6 witness: a cleanup has just removed something while an in-use instance older
\* than its max_age stayed.
C6_Witness ==
    /\ last.op = "cleanup" /\ last.count > 0
    /\ \E i \in Held \cap Live : now - creation_times[i] > last.param

\* C7 (as claimed): cleanup_expired takes what it destroys out of the idle queue,
\* the idle queue holds live instances only, and no acquire fails on a destroyed one.
C7_IdleQueueIsLive ==
    /\ Idle \subseteq Live
    /\ last.op = "cleanup" => Len(available) = Len(pre.available) - last.count
    /\ last.op = "acquire" => last.outcome # "KeyError"

\* C8 (as claimed): a release by a holder removes the agent from the in-use map,
\* queues the instance or destroys it with its metadata, and publishes exactly one
\* release event carrying the counts after the removal.
C8_ReleasePublishesOnce ==
    (last.op = "release" /\ last.agent \in DOMAIN pre.in_use)
        => /\ last.outcome = "ok"
           /\ in_use = Drop(pre.in_use, last.agent)
           /\ \/ available = Append(pre.available, pre.in_use[last.agent])
              \/ /\ available = pre.available
                 /\ pre.in_use[last.agent] \notin Live
           /\ emitted = <<PoolEvent("release", last.agent, Pool, 0)>>

\* C9: a release for an agent that holds nothing returns normally, publishes no
\* event and leaves the pool as it was (so a second release changes nothing).
C9_ReleaseUnheldIsNoOp ==
    (last.op = "release" /\ last.agent \notin DOMAIN pre.in_use)
        => /\ last.outcome = "ok"
           /\ emitted = <<>>
           /\ Pool = pre

\* C9 witness: an agent whose released instance sits in the idle queue has just
\* released again.
C9_Witness ==
    /\ last.op = "release" /\ last.agent \notin DOMAIN pre.in_use
    /\ \E i \in Idle \cap Live : instance_refs[i] = last.agent

\* C10: an acquire that ends in Timeout has published nothing and leaves the pool
\* as it was when the call entered the lock.
C10_TimeoutChangesNothing ==
    (last.op = "acquire" /\ last.outcome = "Timeout")
        => /\ emitted = <<>>
           /\ Pool = pre

\* C10 witness: an acquire on a pool at capacity has just timed out.
C10_Witness ==
    /\ last.op = "acquire" /\ last.outcome = "Timeout"
    /\ InUseCount = max_instances

\* C11 (as claimed): cleanup_expired(max_age) destroys exactly the idle instances
\* whose creation timestamp is older than max_age, returns their number, and
\* publishes one cleanup event carrying that number when it is positive and no
\* event when it is zero.
C11_CleanupDestroysExpiredIdle ==
    last.op = "cleanup"
        => LET due == {i \in SeqRange(pre.available) \cap DOMAIN pre.creation_times :
                          now - pre.creation_times[i] > last.param}
           IN  /\ DOMAIN pre.instance_refs \ Live = due
               /\ last.count = Cardinality(due)
               /\ emitted = IF last.count > 0
                            THEN <<PoolEvent("cleanup", NoAgent, Pool, last.count)>>
                            ELSE <<>>

\* C11 without the instances leaked by a second acquire of a holder (C3): what is
\* destroyed is every expired live instance that is not held.
C11_CleanupDestroysExpiredUnheld ==
    last.op = "cleanup"
        => LET due == {i \in DOMAIN pre.creation_times \ Range(pre.in_use) :
                          now - pre.creation_times[i] > last.param}
           IN  /\ DOMAIN pre.instance_refs \ Live = due
               /\ last.count = Cardinality(due)
               /\ emitted = IF last.count > 0
                            THEN <<PoolEvent("cleanup", NoAgent, Pool, last.count)>>
                            ELSE <<>>

\* ====================================================== SharedDependencyManager
\* Manager calls are coroutines on the same event loop.  register_pool and
\* register_agent run without suspending (the manager lock is never held across an
\* await); get_dependency, release_dependency and release_agent_dependencies suspend
\* only on the lock of a pool, which a waiting acquire keeps until its timeout.  The
\* timeout of such a wait is any positive time, so the wait may end at any step.

\* ------------------------------------------------------------ dict helpers
Keys(d) == {d[k].name : k \in 1..Len(d)}

\* self._pools.get(name)
Get(d, n) ==
    IF n \in Keys(d) THEN d[CHOOSE k \in 1..Len(d) : d[k].name = n].pool ELSE NoPoolObj

\* self._pools[name] = pool: an existing key keeps its place
SetItem(d, n, p) ==
    IF n \in Keys(d)
    THEN [k \in 1..Len(d) |-> IF d[k].name = n THEN [name |-> n, pool |-> p] ELSE d[k]]
    ELSE Append(d, [name |-> n, pool |-> p])

\* ------------------------------------------------------------ register_agent
\* (variant: only the first name of the list is validated)
ValidatedFirstOnly(d, names) == names = <<>> \/ names[1] \in Keys(d)

\* `for dep_type in dependency_types: if dep_type not in self._pools: raise ValueError`
Validated(d, names) == \A k \in 1..Len(names) : names[k] \in Keys(d)

\* (variant: a re-registration adds to the names the agent already had)
AssignedMerged(deps, a, names) ==
    Put(deps, a, SeqRange(names) \cup (IF a \in DOMAIN deps THEN deps[a] ELSE {}))

\* self._agent_dependencies[agent_id] = set(dependency_types)
Assigned(deps, a, names) == Put(deps, a, SeqRange(names))

\* ------------------------------------------------------------ get_dependency
\* (variant: the authorization set is not consulted)
NameAllowedAlways(S, n) == TRUE

\* `if dependency_type not in self._agent_dependencies[agent_id]: raise` (negated)
NameAllowed(S, n) == n \in S

\* ------------------------------------------------------------ release_agent_dependencies
\* (variant: the agent's entry is emptied but stays in the map)
ForgottenKeepsKey(deps, a) == Put(deps, a, {})

\* del self._agent_dependencies[agent_id]
Forgotten(deps, a) == Drop(deps, a)

\* ------------------------------------------------------------ calls
MCall(op, a, n, had) ==
    [op |-> op, agent |-> a, name |-> n, rest |-> {}, had |-> had]

Done(c, outcome, inst) ==
    [NoMLast EXCEPT !.op = c.op, !.agent = c.agent, !.name = c.name,
                    !.outcome = outcome, !.inst = inst, !.had = c.had]

\* pool._lock.locked(): only a waiting acquire keeps the lock between two steps
PoolLocked(o) == o.waiting # NoMCall

\* (variant: the pools share one lock)
PoolLockShared(o) == (\A r \in PoolObjs : ~PoolLocked(pool_objs[r])) /\ o.lock_waiters = <<>>

\* self._lock = asyncio.Lock() of each pool's __init__: the lock of pool o is free
PoolLockFree(o) == ~PoolLocked(o) /\ o.lock_waiters = <<>>

RECURSIVE Sum(_, _)
Sum(f, S) == IF S = {} THEN 0 ELSE LET x == CHOOSE x \in S : TRUE IN f[x] + Sum(f, S \ {x})

\* create_instance calls of all pools together
TotalCreated(objs) == Sum([p \in PoolObjs |-> objs[p].state.created], PoolObjs)

\* manager calls suspended inside a pool
Suspended ==
    Sum([p \in PoolObjs |-> Len(pool_objs[p].lock_waiters)
                             + (IF PoolLocked(pool_objs[p]) THEN 1 ELSE 0)], PoolObjs)

\* The call returns or raises without touching a pool.
Completes(m) ==
    /\ mlast' = m
    /\ memitted' = <<>>
    /\ UNCHANGED <<pool_objs, running>>

\* Call c has the lock of pool p and runs pool.acquire (get_dependency) or
\* pool.release up to the end of the locked section or to the wait of acquire; q is
\* the lock's queue without it.  release_agent_dependencies goes on with its loop
\* unless the release raised.
EnterPool(c, p, q) ==
    LET P == pool_objs[p].state
        validates == IF c.op = "get_dependency" THEN P.available # <<>>
                     ELSE c.agent \in DOMAIN P.in_use
    IN  \E v \in (IF validates THEN BOOLEAN ELSE {TRUE}),
           ok \in (IF c.op = "get_dependency" THEN BOOLEAN ELSE {TRUE}) :
          LET r == IF c.op = "get_dependency" THEN AcquireLocked(P, c.agent, v, ok)
                   ELSE Release(P, c.agent, v)
              waits == r.outcome = "wait"
              goes_on == c.op = "release_agent_dependencies" /\ r.outcome = "ok"
          IN  /\ pool_objs' = [pool_objs EXCEPT ![p] =
                                  [state |-> r.pool,
                                   waiting |-> IF waits THEN c ELSE NoMCall,
                                   lock_waiters |-> q]]
              /\ TotalCreated(pool_objs') <= MaxManaged + warm
              /\ memitted' = r.events
              /\ running' = IF goes_on THEN c ELSE NoMCall
              /\ mlast' = IF waits \/ goes_on THEN NoMLast
                          ELSE Done(c, r.outcome, r.inst)

\* `async with self._lock` of pool p: at once when the lock is free and nobody
\* waits for it, behind the other waiters otherwise.
ToPool(c, p) ==
    IF PoolLockFree(pool_objs[p])
    THEN EnterPool(c, p, <<>>)
    ELSE /\ pool_objs' = [pool_objs EXCEPT ![p].lock_waiters = Append(@, c)]
         /\ running' = NoMCall
         /\ mlast' = NoMLast
         /\ memitted' = <<>>

\* dependency_types: lists of distinct names
NameLists == {l \in UNION {[1..k -> Names] : k \in 0..NNames} :
                 \A j, k \in 1..Len(l) : l[j] = l[k] => j = k}
Quiet == running = NoMCall

register_pool ==
    \E n \in Names, p \in PoolObjs :
        /\ Quiet
        /\ pools' = SetItem(pools, n, p)
        /\ Completes([NoMLast EXCEPT !.op = "register_pool", !.name = n, !.pool = p,
                                     !.outcome = "ok"])
        /\ UNCHANGED <<agent_dependencies, poolside, taskvars, busvars, sbvars>>

register_agent ==
    \E a \in Agents, names \in NameLists :
        LET c == MCall("register_agent", a, NoName,
                       /\ a \in DOMAIN agent_dependencies
                       /\ agent_dependencies[a] \ SeqRange(names) # {})
            valid == Validated(pools, names)
        IN  /\ Quiet
            /\ agent_dependencies' = IF valid THEN Assigned(agent_dependencies, a, names)
                                     ELSE agent_dependencies
            /\ Completes([Done(c, IF valid THEN "ok" ELSE "UnknownDependency", NoInst)
                             EXCEPT !.names = names])
            /\ UNCHANGED <<pools, poolside, taskvars, busvars, sbvars>>

get_dependency ==
    \E a \in Agents, n \in Names :
        LET c == MCall("get_dependency", a, n,
                       /\ a \in DOMAIN agent_dependencies
                       /\ n \in agent_dependencies[a])
            p == Get(pools, n)
        IN  /\ Quiet
            /\ Suspended < MaxCalls
            /\ IF a \notin DOMAIN agent_dependencies
               THEN Completes(Done(c, "NotRegistered", NoInst))
               ELSE IF ~NameAllowed(agent_dependencies[a], n)
               THEN Completes(Done(c, "NotAuthorized", NoInst))
               ELSE IF p = NoPoolObj
               THEN Completes(Done(c, "PoolNotFound", NoInst))
               ELSE ToPool(c, p)
            /\ UNCHANGED <<pools, agent_dependencies, poolside, taskvars, busvars, sbvars>>

release_dependency ==
    \E a \in Agents, n \in Names :
        LET c == MCall("release_dependency", a, n, FALSE)
            p == Get(pools, n)
        IN  /\ Quiet
            /\ Suspended < MaxCalls
            /\ IF p = NoPoolObj THEN Completes(Done(c, "ok", NoInst)) ELSE ToPool(c, p)
            /\ UNCHANGED <<pools, agent_dependencies, poolside, taskvars, busvars, sbvars>>

\* calls in flight that a run follows when release_agent_dependencies is called:
\* MaxCalls, and one more behind each acquire that a run starts with
ReleaseBound == MaxCalls + warm

\* release_agent_dependencies up to its loop over the agent's set
release_agent_dependencies ==
    \E a \in Agents :
        LET c == MCall("release_agent_dependencies", a, NoName,
                       a \in DOMAIN agent_dependencies)
        IN  /\ Quiet
            /\ Suspended < ReleaseBound
            /\ IF a \notin DOMAIN agent_dependencies
               THEN Completes(Done(c, "ok", NoInst))
               ELSE /\ running' = [c EXCEPT !.rest = agent_dependencies[a]]
                    /\ mlast' = NoMLast
                    /\ memitted' = <<>>
                    /\ UNCHANGED pool_objs
            /\ UNCHANGED <<pools, agent_dependencies, poolside, taskvars, busvars, sbvars>>

\* The loop of release_agent_dependencies: release_dependency for the next name of
\* the set (a set iterates in no fixed order), or, the set exhausted, the `del`,
\* which raises KeyError when the entry is gone already.
release_next ==
    /\ ~Quiet
    /\ IF running.rest = {}
       THEN /\ agent_dependencies' =
                  IF running.agent \in DOMAIN agent_dependencies
                  THEN Forgotten(agent_dependencies, running.agent)
                  ELSE agent_dependencies
            /\ mlast' = Done(running, IF running.agent \in DOMAIN agent_dependencies
                                      THEN "ok" ELSE "KeyError", NoInst)
            /\ memitted' = <<>>
            /\ running' = NoMCall
            /\ UNCHANGED pool_objs
       ELSE /\ \E n \in running.rest :
                 LET c == [running EXCEPT !.rest = @ \ {n}, !.name = n]
                     p == Get(pools, n)
                 IN  IF p = NoPoolObj
                     THEN /\ running' = c
                          /\ mlast' = NoMLast
                          /\ memitted' = <<>>
                          /\ UNCHANGED pool_objs
                     ELSE ToPool(c, p)
            /\ UNCHANGED agent_dependencies
    /\ UNCHANGED <<pools, poolside, taskvars, busvars, sbvars>>

\* The free lock of a pool is handed to its first waiter.
pool_lock_granted ==
    \E p \in PoolObjs :
        /\ Quiet
        /\ ~PoolLocked(pool_objs[p])
        /\ pool_objs[p].lock_waiters # <<>>
        /\ EnterPool(Head(pool_objs[p].lock_waiters), p, Tail(pool_objs[p].lock_waiters))
        /\ UNCHANGED <<pools, agent_dependencies, poolside, taskvars, busvars, sbvars>>

\* The wait_for of the acquire that keeps the lock of a pool ends.
pool_wait_ends ==
    \E p \in PoolObjs :
        LET o == pool_objs[p]
            c == o.waiting
        IN  /\ Quiet
            /\ PoolLocked(o)
            /\ \E v \in (IF o.state.available # <<>> THEN BOOLEAN ELSE {TRUE}) :
                 LET r == IF o.state.available # <<>>
                          THEN AcquireWoken(o.state, c.agent, v)
                          ELSE AcquireTimedOut(o.state, c.agent)
                 IN  /\ pool_objs' = [pool_objs EXCEPT ![p].state = r.pool,
                                                       ![p].waiting = NoMCall]
                     /\ memitted' = r.events
                     /\ mlast' = Done(c, r.outcome, r.inst)
            /\ UNCHANGED <<pools, agent_dependencies, running, poolside, taskvars, busvars, sbvars>>

\* ------------------------------------------------------------ specifications
\* SpecMgr follows the registry: pools and agents are registered in any order and
\* the pools are constructed with room for every agent, so that no acquire has to
\* wait and every call runs to its end without suspending.
MgrInit ==
    /\ max_instances = MaxCapacity
    /\ now = 0
    /\ PoolNew
    /\ pool_objs = [p \in PoolObjs |-> FreshPool]
    /\ ManagerNew
    /\ buffer_size = MaxBuffer
    /\ BusNew
    /\ SandboxNew

MgrNext ==
    \/ register_pool
    \/ register_agent
    \/ get_dependency
    \/ release_dependency
    \/ release_agent_dependencies
    \/ release_next

SpecMgr == MgrInit /\ [][MgrNext]_vars

\* SpecRace follows the calls that suspend: every name has its pool registered (as
\* initialize_shared_dependencies leaves the manager), the pools hold one instance
\* at most, and a get_dependency on a full pool keeps the pool's lock while it waits.
RaceInit ==
    /\ max_instances = 1
    /\ now = 0
    /\ PoolNew
    /\ pool_objs = [p \in PoolObjs |-> FreshPool]
    /\ pools = [n \in Names |-> [name |-> n, pool |-> n]]
    /\ agent_dependencies = EmptyFn
    /\ running = NoMCall
    /\ cleanup_task = NoTask
    /\ loops = <<>>
    /\ stops = <<>>
    /\ mlast = NoMLast
    /\ memitted = <<>>
    /\ buffer_size = MaxBuffer
    /\ BusNew
    /\ SandboxNew

RaceNext ==
    \/ register_agent
    \/ get_dependency
    \/ release_dependency
    \/ release_agent_dependencies
    \/ release_next
    \/ pool_lock_granted
    \/ pool_wait_ends

SpecRace == RaceInit /\ [][RaceNext]_vars

\* SpecBusy follows the manager from the moment one of its pools is full: both names
\* have their pools, every agent is registered for both names, and the first agent
\* holds the only instance of the first pool (it called get_dependency before).
BusyPool ==
    [state |-> [available |-> <<>>, in_use |-> [a \in {1} |-> 1],
                instance_refs |-> [i \in {1} |-> 1], creation_times |-> [i \in {1} |-> 0],
                created |-> 1],
     waiting |-> NoMCall, lock_waiters |-> <<>>]

BusyInit ==
    /\ max_instances = 1
    /\ now = 0
    /\ warm = 1
    /\ available = <<>>
    /\ in_use = EmptyFn
    /\ instance_refs = EmptyFn
    /\ creation_times = EmptyFn
    /\ created = 0
    /\ lock_waiters = <<>>
    /\ waiting = NoCall
    /\ pre = NoPool
    /\ last = NoLast
    /\ emitted = <<>>
    /\ rejected = {}
    /\ pool_objs = [p \in PoolObjs |-> IF p = 1 THEN BusyPool ELSE FreshPool]
    /\ pools = [n \in Names |-> [name |-> n, pool |-> n]]
    /\ agent_dependencies = [a \in Agents |-> Names]
    /\ running = NoMCall
    /\ cleanup_task = NoTask
    /\ loops = <<>>
    /\ stops = <<>>
    /\ mlast = NoMLast
    /\ memitted = <<>>
    /\ buffer_size = MaxBuffer
    /\ BusNew
    /\ SandboxNew

BusyNext ==
    \/ register_agent
    \/ get_dependency
    \/ release_dependency
    \/ pool_lock_granted
    \/ pool_wait_ends

SpecBusy == BusyInit /\ [][BusyNext]_vars

\* SpecOverlap follows release_agent_dependencies from the moment a get_dependency
\* of the second agent waits in the full first pool and keeps its lock: every call
\* that releases in that pool suspends behind it until the wait ends.  No agent is
\* registered again, so that an entry of the map goes only by a release.
WaitedPool == [BusyPool EXCEPT !.waiting = MCall("get_dependency", 2, 1, TRUE)]

OverlapInit ==
    /\ max_instances = 1
    /\ now = 0
    /\ warm = 1
    /\ available = <<>>
    /\ in_use = EmptyFn
    /\ instance_refs = EmptyFn
    /\ creation_times = EmptyFn
    /\ created = 0
    /\ lock_waiters = <<>>
    /\ waiting = NoCall
    /\ pre = NoPool
    /\ last = NoLast
    /\ emitted = <<>>
    /\ rejected = {}
    /\ pool_objs = [p \in PoolObjs |-> IF p = 1 THEN WaitedPool ELSE FreshPool]
    /\ pools = [n \in Names |-> [name |-> n, pool |-> n]]
    /\ agent_dependencies = [a \in Agents |-> Names]
    /\ running = NoMCall
    /\ cleanup_task = NoTask
    /\ loops = <<>>
    /\ stops = <<>>
    /\ mlast = NoMLast
    /\ memitted = <<>>
    /\ buffer_size = MaxBuffer
    /\ BusNew
    /\ SandboxNew

OverlapNext ==
    \/ release_agent_dependencies
    \/ release_next
    \/ pool_lock_granted
    \/ pool_wait_ends

SpecOverlap == OverlapInit /\ [][OverlapNext]_vars

\* ------------------------------------------------------------ manager properties
\* C12: get_dependency hands out an instance only if, when it was called, the agent
\* was registered with the name in its authorization set; otherwise it fails with a
\* configuration error and leaves every pool (state, lock queue) as it was, with no
\* event published.
C12_GetDependencyChecksAuthorization ==
    [][(mlast'.op = "get_dependency" /\ ~mlast'.had)
          => /\ mlast'.outcome \in {"NotRegistered", "NotAuthorized"}
             /\ mlast'.inst = NoInst
             /\ pool_objs' = pool_objs
             /\ memitted' = <<>>]_vars

\* C12 witness: a registered agent was refused a name outside its set although
\* the pool of that name had an idle instance to hand out.
C12_Witness ==
    /\ mlast.op = "get_dependency" /\ mlast.outcome = "NotAuthorized"
    /\ mlast.agent \in DOMAIN agent_dependencies
    /\ pool_objs[Get(pools, mlast.name)].state.available # <<>>

\* C13: register_agent with a name that has no registered pool, at any position of
\* the list, raises and leaves the authorization map as it was.
C13_RegisterAgentAllOrNothing ==
    [][(/\ mlast'.op = "register_agent"
        /\ \E k \in 1..Len(mlast'.names) : mlast'.names[k] \notin Keys(pools))
          => /\ mlast'.outcome = "UnknownDependency"
             /\ agent_dependencies' = agent_dependencies]_vars

\* C13 witness: an agent registered with some names was registered again with a
\* list whose second name is unknown, and was refused.
C13_Witness ==
    /\ mlast.op = "register_agent" /\ mlast.outcome = "UnknownDependency"
    /\ mlast.agent \in DOMAIN agent_dependencies
    /\ agent_dependencies[mlast.agent] # {}
    /\ Len(mlast.names) = 2
    /\ mlast.names[1] \in Keys(pools) /\ mlast.names[2] \notin Keys(pools)

\* C14: after release_agent_dependencies(agent) has returned the agent is not in
\* the authorization map; only a successful register_agent(agent, ...) puts it
\* there; and a get_dependency called for an agent that is not in the map fails as
\* unregistered.
C14_RegisteredOnlyUntilReleased ==
    /\ []((mlast.op = "release_agent_dependencies" /\ mlast.outcome = "ok")
             => mlast.agent \notin DOMAIN agent_dependencies)
    /\ [][\A a \in Agents :
            /\ (a \notin DOMAIN agent_dependencies /\ a \in DOMAIN agent_dependencies')
                  => (mlast'.op = "register_agent" /\ mlast'.agent = a
                      /\ mlast'.outcome = "ok")
            /\ (/\ mlast'.op = "get_dependency" /\ mlast'.agent = a /\ ~mlast'.had
                /\ a \notin DOMAIN agent_dependencies)
                  => mlast'.outcome = "NotRegistered"]_vars

\* C14 witness: release_agent_dependencies has returned for an agent that was
\* registered when it was called and had a name to release.
C14_Witness ==
    /\ mlast.op = "release_agent_dependencies" /\ mlast.outcome = "ok"
    /\ mlast.had /\ mlast.name # NoName

\* C15: after a successful register_agent the agent's set is exactly the names
\* given; after register_pool the name is bound once, to the pool given.
C15_RegistrationReplaces ==
    /\ (mlast.op = "register_agent" /\ mlast.outcome = "ok")
          => /\ mlast.agent \in DOMAIN agent_dependencies
             /\ agent_dependencies[mlast.agent] = SeqRange(mlast.names)
    /\ mlast.op = "register_pool"
          => /\ Cardinality({k \in 1..Len(pools) : pools[k].name = mlast.name}) = 1
             /\ \A k \in 1..Len(pools) :
                   pools[k].name = mlast.name => pools[k].pool = mlast.pool

\* C15 witness: an agent was registered again with a list that leaves out a name
\* of its earlier registration.
C15_Witness ==
    /\ mlast.op = "register_agent" /\ mlast.outcome = "ok"
    /\ mlast.had

\* ====================================================== the background cleanup task
\* start_cleanup_task creates a cleanup_loop task; each loop sleeps, runs
\* cleanup_expired_instances and sleeps again.  No other coroutine uses the pools
\* here, so a cycle meets no taken lock and runs without suspending.  The pools
\* handed to register_pool have been used before: some hold an idle instance that
\* is older than the maximum age of the cycle.

\* max_age_seconds of cleanup_expired_instances, as the loop calls it: less than the
\* age of the instances created at time 0
DefaultMaxAge == MaxTime - 1

\* a pool that an agent used and gave back at time 0
UsedPool ==
    [state |-> [available |-> <<1>>, in_use |-> EmptyFn,
                instance_refs |-> [i \in {1} |-> 1],
                creation_times |-> [i \in {1} |-> 0], created |-> 1],
     waiting |-> NoMCall, lock_waiters |-> <<>>]

\* `for dep_type, pool in self._pools.items(): await pool.cleanup_expired(...)`
\* for the first k items: the pool objects afterwards
RECURSIVE CleanedUpTo(_, _, _)
CleanedUpTo(objs, d, k) ==
    IF k = 0 THEN objs
    ELSE LET o == CleanedUpTo(objs, d, k - 1)
             p == d[k].pool
         IN  [o EXCEPT ![p].state = Cleanup(o[p].state, DefaultMaxAge).pool]

\* ... and the events they published
RECURSIVE CleanupEvents(_, _, _)
CleanupEvents(objs, d, k) ==
    IF k = 0 THEN <<>>
    ELSE CleanupEvents(objs, d, k - 1)
            \o Cleanup(CleanedUpTo(objs, d, k - 1)[d[k].pool].state, DefaultMaxAge).events

\* cleanup_expired of item r calls destroy_instance, which may raise
MayRaise(objs, d, r) ==
    Cleanup(CleanedUpTo(objs, d, r - 1)[d[r].pool].state, DefaultMaxAge).count > 0

ItemNames(d, k) == [j \in 1..k |-> d[j].name]

\* the items on which cleanup_expired is called when item r raises (r = 0: none
\* raises): the exception leaves the `for` of cleanup_expired_instances
Reached(d, r) == IF r = 0 THEN Len(d) ELSE r

start_cleanup_task ==
    /\ Quiet
    /\ Len(loops) < MaxLoops
    /\ loops' = Append(loops, [phase |-> "sleeping"])
    /\ cleanup_task' = Len(loops) + 1
    /\ mlast' = [NoMLast EXCEPT !.op = "start_cleanup_task", !.outcome = "ok",
                                !.loop = Len(loops) + 1]
    /\ memitted' = <<>>
    /\ UNCHANGED <<pools, agent_dependencies, pool_objs, running, stops, poolside, busvars, sbvars>>

\* One cycle of cleanup_loop: the sleep is over, cleanup_expired_instances runs, an
\* exception is logged, and the loop sleeps again.
cleanup_loop ==
    \E l \in 1..Len(loops), r \in 0..Len(pools) :
        /\ Quiet
        /\ loops[l].phase = "sleeping"
        /\ r > 0 => MayRaise(pool_objs, pools, r)
        /\ LET n == Reached(pools, r)
               returned == IF r = 0 THEN n ELSE n - 1
           IN  /\ pool_objs' = CleanedUpTo(pool_objs, pools, returned)
               /\ memitted' = CleanupEvents(pool_objs, pools, returned)
               /\ mlast' = [NoMLast EXCEPT !.op = "cleanup_loop", !.loop = l,
                                           !.outcome = IF r = 0 THEN "ok" ELSE "logged",
                                           !.called = ItemNames(pools, n),
                                           !.due = ItemNames(pools, Len(pools))]
        /\ UNCHANGED <<pools, agent_dependencies, running, taskvars, poolside, busvars, sbvars>>

\* stop_cleanup_task up to `await self._cleanup_task`; awaiting a task that is done
\* does not suspend
stop_cleanup_task ==
    /\ Quiet
    /\ IF cleanup_task = NoTask
       THEN /\ mlast' = [NoMLast EXCEPT !.op = "stop_cleanup_task", !.outcome = "ok"]
            /\ UNCHANGED taskvars
       ELSE IF loops[cleanup_task].phase = "done"
       THEN /\ mlast' = [NoMLast EXCEPT !.op = "stop_cleanup_task", !.outcome = "ok",
                                        !.loop = cleanup_task]
            /\ cleanup_task' = NoTask
            /\ UNCHANGED <<loops, stops>>
       ELSE /\ Len(stops) < MaxCalls
            /\ loops' = [loops EXCEPT ![cleanup_task].phase = "cancelling"]
            /\ stops' = Append(stops, cleanup_task)
            /\ mlast' = NoMLast
            /\ UNCHANGED cleanup_task
    /\ memitted' = <<>>
    /\ UNCHANGED <<pools, agent_dependencies, pool_objs, running, poolside, busvars, sbvars>>

\* CancelledError is raised inside asyncio.sleep of a cancelled loop and ends it
cleanup_loop_cancelled ==
    \E l \in 1..Len(loops) :
        /\ Quiet
        /\ loops[l].phase = "cancelling"
        /\ loops' = [loops EXCEPT ![l].phase = "done"]
        /\ mlast' = NoMLast
        /\ memitted' = <<>>
        /\ UNCHANGED <<pools, agent_dependencies, pool_objs, running, cleanup_task, stops,
                       poolside, busvars, sbvars>>

\* `await self._cleanup_task` returns; self._cleanup_task = None
stop_returns ==
    \E k \in 1..Len(stops) :
        /\ Quiet
        /\ loops[stops[k]].phase = "done"
        /\ stops' = SubSeq(stops, 1, k - 1) \o SubSeq(stops, k + 1, Len(stops))
        /\ cleanup_task' = NoTask
        /\ mlast' = [NoMLast EXCEPT !.op = "stop_cleanup_task", !.outcome = "ok",
                                    !.loop = stops[k]]
        /\ memitted' = <<>>
        /\ UNCHANGED <<pools, agent_dependencies, pool_objs, running, loops,
                       poolside, busvars, sbvars>>

TaskInit ==
    /\ max_instances = MaxCapacity
    /\ now = MaxTime
    /\ PoolNew
    /\ pool_objs \in [PoolObjs -> {FreshPool, UsedPool}]
    /\ ManagerNew
    /\ buffer_size = MaxBuffer
    /\ BusNew
    /\ SandboxNew

TaskNext ==
    \/ register_pool
    \/ start_cleanup_task
    \/ cleanup_loop
    \/ stop_cleanup_task
    \/ cleanup_loop_cancelled
    \/ stop_returns

SpecTask == TaskInit /\ [][TaskNext]_vars

\* C16 (as claimed): a cycle of the cleanup task calls cleanup_expired on every
\* registered pool, also when the cleanup of one of them raises, and the loop goes
\* on to its next cycle.
C16_CycleCleansEveryPool ==
    mlast.op = "cleanup_loop"
        => /\ mlast.called = mlast.due
           /\ loops[mlast.loop].phase = "sleeping"

\* C17 (as claimed): when stop_cleanup_task has returned, the task reference is
\* cleared and no loop that start_cleanup_task created is still running, however
\* often start_cleanup_task was called before.
C17_StopEndsEveryLoop ==
    mlast.op = "stop_cleanup_task"
        => /\ cleanup_task = NoTask
           /\ \A l \in 1..Len(loops) : loops[l].phase = "done"

\* ====================================================== EventBus
\* (src/src/claude_agent_toolkit/system/observability.py)  publish, subscribe and
\* recent are synchronous; each runs to its end in one step.  An event is the
\* object handed to publish: its place in the order of publication and its type.
\* A handler raises (an Exception) or returns at each call.

\* ------------------------------------------------------------ publish
\* (variant: a full buffer is not trimmed)
BufferedUnbounded(buf, size, e) == Append(buf, e)

\* (variant: the event is put in front)
BufferedInFront(buf, size, e) ==
    IF Len(buf) >= size THEN <<e>> \o Tail(buf) ELSE <<e>> \o buf

\* `if len(self._buffer) >= self._buffer_size: self._buffer.pop(0)`;
\* self._buffer.append(event)
Buffered(buf, size, e) ==
    IF Len(buf) >= size THEN Append(Tail(buf), e) ELSE Append(buf, e)

\* (variant: no try/except around the handler call)
RECURSIVE DispatchStopsAtError(_, _)
DispatchStopsAtError(hs, bad) ==
    IF hs = <<>> THEN [called |-> <<>>, raised |-> FALSE]
    ELSE IF Head(hs) \in bad THEN [called |-> <<Head(hs)>>, raised |-> TRUE]
    ELSE LET rest == DispatchStopsAtError(Tail(hs), bad)
         IN  [called |-> <<Head(hs)>> \o rest.called, raised |-> rest.raised]

\* `for fn in self._subs.get(etype, []): try: fn(event) except Exception: pass`;
\* bad are the handlers that raise at this call
RECURSIVE Dispatch(_, _)
Dispatch(hs, bad) ==
    IF hs = <<>> THEN [called |-> <<>>, raised |-> FALSE]
    ELSE LET rest == Dispatch(Tail(hs), bad)
         IN  [called |-> <<Head(hs)>> \o rest.called, raised |-> rest.raised]

\* ------------------------------------------------------------ recent
\* the list slice s[i:], i of either sign
SliceFrom(s, i) ==
    LET start == IF i < 0 THEN (IF Len(s) + i < 0 THEN 0 ELSE Len(s) + i)
                 ELSE (IF i > Len(s) THEN Len(s) ELSE i)
    IN  SubSeq(s, start + 1, Len(s))

\* list(self._buffer[-limit:])
Recent(buf, limit) == SliceFrom(buf, 0 - limit)

\* ------------------------------------------------------------ calls
Limits == 0..(MaxBuffer + 1)
Subscriptions == Sum([t \in EventTypes |-> Len(subs[t])], EventTypes)
elsewhere == <<poolside, mgrvars, taskvars, sbvars>>

publish ==
    \E t \in EventTypes :
        \E bad \in SUBSET SeqRange(subs[t]) :
            LET e == [id |-> Len(published) + 1, event_type |-> t]
                d == Dispatch(subs[t], bad)
            IN  /\ Len(published) < MaxPublished
                /\ buffer' = Buffered(buffer, buffer_size, e)
                /\ published' = Append(published, e)
                /\ blast' = [NoBLast EXCEPT !.op = "publish", !.event = e.id, !.etype = t,
                                            !.bad = bad, !.called = d.called,
                                            !.outcome = IF d.raised THEN "raised" ELSE "ok"]
                /\ UNCHANGED <<buffer_size, subs, entering, frames, elsewhere>>

subscribe ==
    \E t \in EventTypes, h \in Handlers :
        /\ Subscriptions < MaxSubs
        /\ subs' = [subs EXCEPT ![t] = Append(@, h)]
        /\ blast' = [NoBLast EXCEPT !.op = "subscribe", !.etype = t, !.outcome = "ok"]
        /\ UNCHANGED <<buffer_size, buffer, published, entering, frames, elsewhere>>

recent ==
    \E limit \in Limits :
        /\ blast' = [NoBLast EXCEPT !.op = "recent", !.limit = limit, !.outcome = "ok",
                                    !.result = Recent(buffer, limit)]
        /\ UNCHANGED <<buffer_size, buffer, subs, published, entering, frames, elsewhere>>

\* every EventBus of the repository is constructed with a positive buffer_size
BusInit ==
    /\ max_instances = MaxCapacity
    /\ now = 0
    /\ PoolNew
    /\ pool_objs = [p \in PoolObjs |-> FreshPool]
    /\ ManagerNew
    /\ buffer_size \in 1..MaxBuffer
    /\ BusNew
    /\ SandboxNew

BusNext ==
    \/ publish
    \/ subscribe
    \/ recent

SpecBus == BusInit /\ [][BusNext]_vars

\* ------------------------------------------------------------ publishing threads
\* Thread c calls publish(event) and computes etype; it has not reached
\* `with self._lock` yet.  `published` lists the events in the order of the calls.
publish_called ==
    \E c \in Threads, t \in EventTypes :
        LET e == [id |-> Len(published) + 1, event_type |-> t, caller |-> c]
        IN  /\ entering[c] = NoEvent
            /\ Len(published) < MaxPublished
            /\ entering' = [entering EXCEPT ![c] = e]
            /\ published' = Append(published, e)
            /\ blast' = NoBLast
            /\ UNCHANGED <<buffer_size, buffer, subs, frames, elsewhere>>

\* Thread c takes the lock, updates the buffer, leaves the lock, calls the handlers
\* and returns; only then can it call publish again.
publish_locked ==
    \E c \in {c \in Threads : entering[c] # NoEvent} :
        \E bad \in SUBSET SeqRange(subs[entering[c].event_type]) :
            LET e == entering[c]
                d == Dispatch(subs[e.event_type], bad)
            IN  /\ buffer' = Buffered(buffer, buffer_size, e)
                /\ entering' = [entering EXCEPT ![c] = NoEvent]
                /\ blast' = [NoBLast EXCEPT !.op = "publish", !.event = e.id,
                                            !.etype = e.event_type,
                                            !.bad = bad, !.called = d.called,
                                            !.outcome = IF d.raised THEN "raised" ELSE "ok"]
                /\ UNCHANGED <<buffer_size, subs, published, frames, elsewhere>>

ThreadsNext ==
    \/ publish_called
    \/ publish_locked
    \/ recent

\* SpecThreads follows an event bus to which several threads publish.
SpecThreads == BusInit /\ [][ThreadsNext]_vars

\* ------------------------------------------------------------ handlers that call the bus
\* One thread, statement by statement: publish computes etype, takes the lock,
\* updates the buffer and leaves the lock, then calls the handlers in turn.  A
\* handler returns or raises, and before that it may call publish or recent on the
\* same bus (as the log handler of logging.py does); the nested call runs as a
\* frame on top of the caller's.  threading.Lock is not re-entrant: a frame that
\* needs the lock goes on only when no frame keeps it.
Frame(e) == [event |-> e, phase |-> "called", next |-> 1, called |-> <<>>]
Top == frames[Len(frames)]
Popped == SubSeq(frames, 1, Len(frames) - 1)
InFrame(f) == f.phase = "dispatch" /\ f.next <= Len(subs[f.event.event_type])

\* (variant: the handlers are called inside the `with` block)
LockKeptThroughDispatch(f) == f.phase \in {"locked", "dispatch"}

\* `with self._lock:` of publish (67-71) ends before the dispatch loop (73-78)
LockKept(f) == f.phase = "locked"

\* self._lock.locked()
BusLocked == \E k \in 1..Len(frames) : LockKept(frames[k])

\* publish(event) is called from outside any handler
publish_begins ==
    \E t \in EventTypes :
        LET e == [id |-> Len(published) + 1, event_type |-> t, caller |-> 1]
        IN  /\ frames = <<>>
            /\ Len(published) < MaxPublished
            /\ frames' = <<Frame(e)>>
            /\ published' = Append(published, e)
            /\ blast' = NoBLast
            /\ UNCHANGED <<buffer_size, buffer, subs, entering, elsewhere>>

\* `with self._lock:` is entered
publish_takes_lock ==
    /\ frames # <<>>
    /\ Top.phase = "called"
    /\ ~BusLocked
    /\ frames' = [frames EXCEPT ![Len(frames)].phase = "locked"]
    /\ blast' = NoBLast
    /\ UNCHANGED <<buffer_size, buffer, subs, published, entering, elsewhere>>

\* the body of the `with` block, and its end
publish_buffers ==
    /\ frames # <<>>
    /\ Top.phase = "locked"
    /\ buffer' = Buffered(buffer, buffer_size, Top.event)
    /\ frames' = [frames EXCEPT ![Len(frames)].phase = "dispatch"]
    /\ blast' = NoBLast
    /\ UNCHANGED <<buffer_size, subs, published, entering, elsewhere>>

\* the handler that the loop is calling calls publish
handler_publishes ==
    \E t \in EventTypes :
        LET e == [id |-> Len(published) + 1, event_type |-> t, caller |-> 1]
        IN  /\ frames # <<>>
            /\ InFrame(Top)
            /\ Len(frames) < MaxDepth
            /\ Len(published) < MaxPublished
            /\ frames' = Append(frames, Frame(e))
            /\ published' = Append(published, e)
            /\ blast' = NoBLast
            /\ UNCHANGED <<buffer_size, buffer, subs, entering, elsewhere>>

\* the handler that the loop is calling calls recent
handler_reads ==
    \E limit \in Limits :
        /\ frames # <<>>
        /\ InFrame(Top)
        /\ ~BusLocked
        /\ blast' = [NoBLast EXCEPT !.op = "recent", !.limit = limit, !.outcome = "ok",
                                    !.result = Recent(buffer, limit)]
        /\ UNCHANGED <<buffer_size, buffer, subs, published, entering, frames, elsewhere>>

\* the handler that the loop is calling returns, or raises into the `except` of 77:
\* either way the loop goes on with the next handler
handler_returns ==
    /\ frames # <<>>
    /\ InFrame(Top)
    /\ frames' = [frames EXCEPT
                     ![Len(frames)].called = Append(@, subs[Top.event.event_type][Top.next]),
                     ![Len(frames)].next = @ + 1]
    /\ blast' = NoBLast
    /\ UNCHANGED <<buffer_size, buffer, subs, published, entering, elsewhere>>

\* the loop is over: publish returns to its caller
publish_returns ==
    /\ frames # <<>>
    /\ Top.phase = "dispatch"
    /\ ~InFrame(Top)
    /\ frames' = Popped
    /\ blast' = [NoBLast EXCEPT !.op = "publish", !.event = Top.event.id,
                                !.etype = Top.event.event_type,
                                !.called = Top.called, !.outcome = "ok"]
    /\ UNCHANGED <<buffer_size, buffer, subs, published, entering, elsewhere>>

\* a subscription made between two publish calls
subscribes ==
    /\ frames = <<>>
    /\ subscribe

NestNext ==
    \/ subscribes
    \/ publish_begins
    \/ publish_takes_lock
    \/ publish_buffers
    \/ handler_publishes
    \/ handler_reads
    \/ handler_returns
    \/ publish_returns

\* a thread that can take its next step takes it; a handler returns in the end
Runs == publish_takes_lock \/ publish_buffers \/ handler_returns \/ publish_returns

\* SpecNest follows one thread whose handlers call the bus.
SpecNest == BusInit /\ [][NestNext]_vars /\ WF_vars(Runs)

\* ------------------------------------------------------------ bus properties
\* the last n events published, in publish order
LastPublished(n) ==
    SubSeq(published, IF Len(published) > n THEN Len(published) - n + 1 ELSE 1,
           Len(published))

\* C18: the buffer never holds more than buffer_size events, and once more than
\* buffer_size events were published, recent(buffer_size) returns the buffer_size
\* most recent of them in publish order.
C18_BufferKeepsMostRecent ==
    /\ Len(buffer) <= buffer_size
    /\ (blast.op = "recent" /\ blast.limit = buffer_size /\ Len(published) > buffer_size)
          => /\ Len(blast.result) = buffer_size
             /\ blast.result = LastPublished(buffer_size)

\* C18 witness: recent(buffer_size) was called after at least two events had been
\* dropped.
C18_Witness ==
    /\ blast.op = "recent" /\ blast.limit = buffer_size
    /\ Len(published) > buffer_size + 1

\* C19: whatever handlers raise, publish returns normally, the event is the newest
\* in the buffer, and every handler subscribed to its type was called with it, in
\* subscription order.
C19_BrokenHandlerIsIsolated ==
    blast.op = "publish"
        => /\ blast.outcome = "ok"
           /\ buffer # <<>>
           /\ buffer[Len(buffer)].id = blast.event
           /\ blast.called = subs[blast.etype]

\* C19 witness: the first of two handlers of the event's type raised.
C19_Witness ==
    /\ blast.op = "publish"
    /\ Len(subs[blast.etype]) = 2
    /\ subs[blast.etype][1] \in blast.bad

\* C20 (as claimed): for every limit >= 0, recent(limit) returns the last `limit`
\* buffered events (all of them when fewer are buffered) in publish order, so never
\* more than `limit` of them.
C20_RecentReturnsAtMostLimit ==
    blast.op = "recent"
        => /\ Len(blast.result) <= blast.limit
           /\ blast.result = LastPublished(IF blast.limit < Len(buffer)
                                           THEN blast.limit ELSE Len(buffer))

\* C20 for positive limits: the same, with limit > 0.
C20_RecentPositiveLimit ==
    (blast.op = "recent" /\ blast.limit > 0)
        => /\ Len(blast.result) <= blast.limit
           /\ blast.result = LastPublished(IF blast.limit < Len(buffer)
                                           THEN blast.limit ELSE Len(buffer))

\* ------------------------------------------------------------ pool properties, continued
\* C29: an acquire that rejects the popped idle instance goes on to the other idle
\* instances; it creates a new instance only when every idle instance it found was
\* validated and rejected.
C29_CreatesOnlyWhenNoIdleValidates ==
    (last.op = "acquire" /\ last.fresh # {}) => SeqRange(pre.available) \subseteq last.failed

\* What the code does: it validates the head of the idle queue only, and creates
\* whenever that one is rejected (or the queue was empty) and the in-use map has room.
C29_CreatesAfterHeadRejected ==
    (last.op = "acquire" /\ last.fresh # {}) =>
        /\ last.failed = (IF pre.available = <<>> THEN {} ELSE {Head(pre.available)})
        /\ last.passed = {}
        /\ Cardinality(DOMAIN pre.in_use) < max_instances

\* C30: the pool never has more metadata entries (get_stats()["total_created"] is
\* len(self._instance_refs)) than max_instances.
C30_TotalCreatedBounded == Cardinality(DOMAIN instance_refs) <= max_instances

\* Without an agent that acquired again while holding, the bound holds: the entries
\* are the idle and the held instances, and the held ones are at most max_instances
\* less the idle ones.
C30_BoundedWithoutLeak ==
    (DOMAIN instance_refs \subseteq (SeqRange(available) \cup Range(in_use))) =>
        Cardinality(DOMAIN instance_refs) <= max_instances

CallerOrdered(s) ==
    \A i, j \in 1..Len(s) : (i < j /\ s[i].caller = s[j].caller) => s[i].id < s[j].id

\* C21: the events that one caller published one after the other are in the buffer,
\* and in what recent returns, in the order that caller published them, whatever
\* the other callers published in between.
C21_SameCallerOrderKept ==
    /\ CallerOrdered(buffer)
    /\ blast.op = "recent" => CallerOrdered(blast.result)

\* C21 witness: the buffer holds two events of one caller, and another caller
\* called publish between the two calls.
C21_Witness ==
    /\ Len(buffer) = 2
    /\ \E k \in 1..Len(published) :
          /\ published[k].caller # buffer[2].caller
          /\ buffer[1].id < k /\ k < buffer[2].id
    /\ buffer[1].caller = buffer[2].caller

\* ============================================================ SandboxManager
\* (variant: create_session takes any strategy name)
StrategyKnownAlways(s) == TRUE

\* `if strategy not in self._strategies` of create_session
StrategyKnown(s) == s \in DOMAIN strategies

\* bool(memory_limit_mb): None and 0 are false
Truthy(m) == m # NoLimit /\ m # 0

\* resource_exceeded = (max_cpu > cpu_limit_pct) or
\*                     (memory_limit_mb and max_memory_mb > memory_limit_mb),
\* as bool() sees it
ResourceExceeded(cfg, cpu, mem) ==
    \/ cpu > cfg.hard_cpu_limit_pct
    \/ Truthy(cfg.memory_limit_mb) /\ mem > cfg.memory_limit_mb

\* success = (exit_code == 0) and not resource_exceeded
Success(exit_code, exceeded) == exit_code = 0 /\ ~exceeded

\* the start event
StartEvent(a, s) ==
    [event_type |-> "sandbox.exec", phase |-> "start", agent_id |-> a, sandbox_strategy |-> s]

\* the finish event; the one of the except branch carries data["error"] instead of
\* the telemetry
FinishEvent(a, s, success, latency, exceeded, exit_code, error) ==
    [event_type |-> "sandbox.exec", phase |-> "finish", agent_id |-> a, sandbox_strategy |-> s,
     success |-> success, latency_ms |-> latency, resource_exceeded |-> exceeded,
     exit_code |-> exit_code, error |-> error]

\* (variant: the except branch publishes nothing)
FailureEventsNone(a, s, latency) == <<>>

\* event_bus.publish(... phase="finish", success=False ...) of the except branch
FailureEvents(a, s, latency) == <<FinishEvent(a, s, FALSE, latency, FALSE, 0, TRUE)>>

\* (variant: the timeout path leaves the process alone)
KilledNot(p) == p

\* process.kill(); process.communicate(): the process is dead and reaped
Killed(p) == "killed"

\* the event loop is not inside a run: run has no await, so that from its call to
\* its return no other coroutine of the loop is resumed
LoopFree == srun = NoRun

\* communicate(timeout=30): the longest wait that the clock can tell
CommunicateTimeout == MaxTime - 1

\* The run on session k has finished (k = 0: a session object that did not come from
\* create_session).  The SandboxSession itself records nothing of it.
Ended(k, state) == IF k = 0 THEN sessions ELSE [sessions EXCEPT ![k].state = state]

\* The call returns the result of the try block's end (lines 106-140).
Returned(r, exit_code, path, pr) ==
    LET cfg == strategies[r.strategy]
        exceeded == ResourceExceeded(cfg, r.max_cpu, r.max_memory_mb)
        success == Success(exit_code, exceeded)
        latency == now - r.t0
    IN  /\ slast' = [op |-> "run", agent_id |-> r.agent_id, strategy |-> r.strategy,
                     outcome |-> "returned", session |-> NoSession, path |-> path,
                     success |-> success,
                     stderr |-> IF success THEN "none" ELSE "process", latency |-> latency,
                     exit_code |-> exit_code, max_cpu |-> r.max_cpu,
                     max_memory_mb |-> r.max_memory_mb]
        /\ semitted' = Append(semitted, FinishEvent(r.agent_id, r.strategy, success, latency,
                                                    exceeded, exit_code, FALSE))
        /\ proc' = pr
        /\ srun' = NoRun
        /\ sessions' = Ended(r.session, IF success THEN "succeeded" ELSE "failed")

\* The call returns the result of the except branch (lines 142-168).
Failed(a, s, t0, path, pr) ==
    /\ slast' = [NoSLast EXCEPT !.op = "run", !.agent_id = a, !.strategy = s,
                                !.outcome = "returned", !.path = path,
                                !.stderr = "Execution failed", !.latency = now - t0]
    /\ proc' = pr
    /\ srun' = NoRun

\* await sandbox.create_session(agent_id, strategy)
create_session ==
    \E a \in Agents, s \in StrategyNames :
        /\ LoopFree
        /\ Len(sessions) < MaxSessions
        /\ sessions' = IF StrategyKnown(s)
                       THEN Append(sessions, [agent_id |-> a, strategy |-> s,
                                              state |-> "created"])
                       ELSE sessions
        /\ slast' = [NoSLast EXCEPT !.op = "create_session", !.agent_id = a, !.strategy = s,
                                    !.outcome = IF StrategyKnown(s) THEN "returned"
                                                ELSE "ValueError",
                                    !.session = IF StrategyKnown(s)
                                                THEN [agent_id |-> a, strategy |-> s]
                                                ELSE NoSession]
        /\ semitted' = <<>>
        /\ UNCHANGED <<strategies, srun, proc, spawned, now, poolrest, mgrvars, taskvars, busvars>>

\* await sandbox.run(session, command) up to process.communicate: the strategy
\* lookup, the start event, the imports and Popen.  fate is what the imports and
\* Popen do: "spawned", "ImportError" (no psutil), "PopenError".  The session is one
\* that create_session returned (k > 0), whatever was done with it before, or a
\* SandboxSession that the caller constructed (k = 0).
run_called ==
    \E k \in 0..Len(sessions), a \in Agents, s \in StrategyNames,
       fate \in {"spawned", "ImportError", "PopenError"} :
        /\ k > 0 => (a = sessions[k].agent_id /\ s = sessions[k].strategy)
        /\ LoopFree
        /\ spawned < MaxSpawned
        /\ IF s \notin DOMAIN strategies
           THEN /\ slast' = [NoSLast EXCEPT !.op = "run", !.agent_id = a, !.strategy = s,
                                            !.outcome = "KeyError"]
                /\ semitted' = <<>>
                /\ UNCHANGED <<srun, proc, spawned, sessions>>
           ELSE IF fate # "spawned"
           THEN /\ Failed(a, s, now, fate, proc)
                /\ semitted' = <<StartEvent(a, s)>> \o FailureEvents(a, s, 0)
                /\ sessions' = Ended(k, "failed")
                /\ UNCHANGED spawned
           ELSE /\ srun' = [agent_id |-> a, strategy |-> s, t0 |-> now, max_cpu |-> 0,
                            max_memory_mb |-> 0, session |-> k]
                /\ proc' = "running"
                /\ spawned' = spawned + 1
                /\ semitted' = <<StartEvent(a, s)>>
                /\ slast' = NoSLast
                /\ sessions' = Ended(k, "running")
        /\ UNCHANGED <<strategies, now, poolrest, mgrvars, taskvars, busvars>>

\* The monitor thread takes a reading while the process runs.
monitor_samples ==
    \E cpu \in Loads, mem \in Loads :
        LET Max(x, y) == IF x > y THEN x ELSE y
            r == [srun EXCEPT !.max_cpu = Max(@, cpu), !.max_memory_mb = Max(@, mem)]
        IN  /\ srun # NoRun
            /\ r # srun
            /\ srun' = r
            /\ slast' = NoSLast
            /\ UNCHANGED <<strategies, proc, spawned, semitted, sessions, now, poolrest,
                           mgrvars, taskvars, busvars>>

\* Time passes while the thread of the event loop is inside communicate.
sandbox_tick ==
    /\ srun # NoRun
    /\ now < MaxTime
    /\ now - srun.t0 < CommunicateTimeout
    /\ now' = now + 1
    /\ slast' = NoSLast
    /\ UNCHANGED <<sbvars_but_slast, poolrest, mgrvars, taskvars, busvars>>

\* The process exits before the timeout and communicate returns its output.
run_returns ==
    \E code \in ExitCodes :
        /\ srun # NoRun
        /\ now - srun.t0 < CommunicateTimeout
        /\ Returned(srun, code, "exit", "exited")
        /\ UNCHANGED <<strategies, spawned, now, poolrest, mgrvars, taskvars, busvars>>

\* communicate raises TimeoutExpired: kill, collect the output, exit_code = -1.
run_times_out ==
    /\ srun # NoRun
    /\ now - srun.t0 >= CommunicateTimeout
    /\ Returned(srun, TimeoutExit, "timeout", Killed(proc))
    /\ UNCHANGED <<strategies, spawned, now, poolrest, mgrvars, taskvars, busvars>>

\* communicate raises another exception (the output does not decode, the pipe
\* fails): the except branch answers; the process is left as it is, running or not.
run_wait_raises ==
    \E pr \in {"running", "exited"} :
        /\ srun # NoRun
        /\ Failed(srun.agent_id, srun.strategy, srun.t0, "CommunicateError", pr)
        /\ sessions' = Ended(srun.session, "failed")
        /\ semitted' = semitted \o FailureEvents(srun.agent_id, srun.strategy, now - srun.t0)
        /\ UNCHANGED <<strategies, spawned, now, poolrest, mgrvars, taskvars, busvars>>

\* SpecSandbox follows one SandboxManager with one configured strategy.
SandboxInit ==
    /\ max_instances = MaxCapacity
    /\ now = 0
    /\ PoolNew
    /\ pool_objs = [p \in PoolObjs |-> FreshPool]
    /\ ManagerNew
    /\ buffer_size = MaxBuffer
    /\ BusNew
    /\ \E c \in 1..(MaxLoad - 1), m \in {NoLimit} \cup (0..(MaxLoad - 1)) :
          strategies = [n \in {"subprocess"} |-> StrategyConfig(c, m)]
    /\ srun = NoRun
    /\ proc = "none"
    /\ spawned = 0
    /\ slast = NoSLast
    /\ semitted = <<>>
    /\ sessions = <<>>

SandboxNext ==
    \/ create_session
    \/ run_called
    \/ monitor_samples
    \/ sandbox_tick
    \/ run_returns
    \/ run_times_out
    \/ run_wait_raises

SpecSandbox == SandboxInit /\ [][SandboxNext]_vars

\* ------------------------------------------------------------ sandbox properties
ExceptionPaths == {"ImportError", "PopenError", "CommunicateError"}

\* C22 (as claimed): run never raises.  For every session value and every failure
\* mode it returns a result, and when the failure is an exception the result has
\* success = false and the diagnostic text in stderr.
C22_RunNeverRaises ==
    slast.op = "run"
        => /\ slast.outcome = "returned"
           /\ slast.path \in ExceptionPaths
                 => ~slast.success /\ slast.stderr = "Execution failed"

\* C22 for the sessions that create_session hands out: the same, with the
\* session's strategy in the strategy map.
C22_RunOfConfiguredStrategyNeverRaises ==
    (slast.op = "run" /\ slast.strategy \in DOMAIN strategies)
        => /\ slast.outcome = "returned"
           /\ slast.path \in ExceptionPaths
                 => ~slast.success /\ slast.stderr = "Execution failed"

C24_SuccessIffWithinCeilings ==
    (slast.op = "run" /\ slast.path \in {"exit", "timeout"})
        => LET cfg == strategies[slast.strategy]
               within == /\ slast.max_cpu <= cfg.hard_cpu_limit_pct
                         /\ \/ cfg.memory_limit_mb = NoLimit
                            \/ slast.max_memory_mb <= cfg.memory_limit_mb
           IN  /\ slast.success <=> (slast.exit_code = 0 /\ within)
               /\ (slast.exit_code = 0 /\ ~within)
                     => semitted[Len(semitted)].resource_exceeded

\* C24 for the memory limits other than 0: the same, when memory_limit_mb is None or
\* positive.
C24_SuccessIffWithinPositiveCeilings ==
    (slast.op = "run" /\ slast.path \in {"exit", "timeout"}
                      /\ strategies[slast.strategy].memory_limit_mb # 0)
        => LET cfg == strategies[slast.strategy]
               within == /\ slast.max_cpu <= cfg.hard_cpu_limit_pct
                         /\ \/ cfg.memory_limit_mb = NoLimit
                            \/ slast.max_memory_mb <= cfg.memory_limit_mb
           IN  /\ slast.success <=> (slast.exit_code = 0 /\ within)
               /\ (slast.exit_code = 0 /\ ~within)
                     => semitted[Len(semitted)].resource_exceeded

\* C25: a run whose command outlasts the timeout returns success = false with a
\* latency of at least the timeout, and its process is dead when it returns.
C25_TimeoutKillsTheProcess ==
    (slast.op = "run" /\ slast.path = "timeout")
        => /\ ~slast.success
           /\ slast.latency >= MaxTime - 1
           /\ proc = "killed"

\* C25 witness: a run has returned through the timeout path.
C25_Witness == slast.op = "run" /\ slast.path = "timeout" /\ slast.exit_code = TimeoutExit

\* C26 (as claimed): while a run waits for its process, another coroutine of the
\* event loop (here a create_session call) can take its step.
C26_RunLeavesTheLoopFree == (srun # NoRun /\ proc = "running") => ENABLED create_session

\* C27: create_session raises ValueError exactly when the strategy is not in the
\* strategy map and otherwise returns a session of that agent and strategy; either
\* way it spawns no process and publishes no event.
C27_CreateSessionChecksStrategy ==
    [][slast'.op = "create_session"
          => /\ slast'.outcome = (IF slast'.strategy \in DOMAIN strategies
                                  THEN "returned" ELSE "ValueError")
             /\ slast'.outcome = "returned"
                   => slast'.session = [agent_id |-> slast'.agent_id,
                                        strategy |-> slast'.strategy]
             /\ slast'.outcome = "ValueError" => slast'.session = NoSession
             /\ spawned' = spawned /\ proc' = proc /\ srun' = srun
             /\ semitted' = <<>>]_vars

\* C27 witness: create_session refused an unknown strategy after a process had
\* been spawned by an earlier run.
C27_Witness == slast.op = "create_session" /\ slast.outcome = "ValueError" /\ spawned > 0

\* ------------------------------------------------------------ pool properties, third part
\* C35: when create_instance raises in acquire, the error reaches the caller, the
\* agent is not entered in the in-use map, no metadata is registered, no instance
\* counts as created, no event is published, and the lock is free afterwards.
C35_FailedCreateLeavesNoTrace ==
    (last.op = "acquire" /\ last.outcome = "CreateError")
        => /\ last.inst = NoInst
           /\ in_use = pre.in_use
           /\ DOMAIN instance_refs \subseteq DOMAIN pre.instance_refs
           /\ DOMAIN creation_times \subseteq DOMAIN pre.creation_times
           /\ created = pre.created
           /\ emitted = <<>>
           /\ waiting = NoCall

\* C35 witness: create_instance raised for an agent that holds nothing, while
\* another call was queued for the lock.
C35_Witness ==
    /\ last.op = "acquire" /\ last.outcome = "CreateError"
    /\ last.agent \notin DOMAIN in_use
    /\ lock_waiters # <<>>

\* C36: an acquire that returns an instance has published exactly one event: an
\* acquire event of the pool's dependency_type and of the acquiring agent, whose
\* in_use and available are the sizes of the in-use map and of the idle queue once
\* the instance is assigned.
C36_AcquirePublishesOneEvent ==
    (last.op = "acquire" /\ last.outcome = "ok")
        => /\ Len(emitted) = 1
           /\ emitted[1].action = "acquire"
           /\ emitted[1].dependency_type = DependencyType
           /\ emitted[1].agent_id = last.agent
           /\ emitted[1].in_use = Cardinality(DOMAIN in_use)
           /\ emitted[1].available = Len(available)
           /\ in_use[last.agent] = last.inst

\* C36 witness: an acquire reused an idle instance while another idle instance and
\* another holder were there.
C36_Witness ==
    /\ last.op = "acquire" /\ last.outcome = "ok"
    /\ last.passed # {}
    /\ Cardinality(DOMAIN in_use) + Len(available) >= 2

\* C37: the agent recorded in the DependencyInstance of every held instance is the
\* agent under whose key the instance is held.
C37_RecordNamesTheHolder ==
    \A a \in DOMAIN in_use :
        in_use[a] \in DOMAIN instance_refs => instance_refs[in_use[a]] = a

\* What holds instead: the record names the agent for whom the instance was created.
C37_RecordNamesTheCreator ==
    [][\A i \in DOMAIN instance_refs :
          i \in DOMAIN instance_refs' => instance_refs'[i] = instance_refs[i]]_vars

\* ============================================================ termination of pool calls
\* One call in flight at a time is observed, so that a property can follow it
\* from its call to its end.
Observed == waiting.observed \/ \E k \in 1..Len(lock_waiters) : lock_waiters[k].observed
ObserveChoice == IF Observed THEN {FALSE} ELSE BOOLEAN

\* The calls are made while the clock is within MaxTime.
acquire_called == now <= MaxTime /\ \E o \in ObserveChoice : Acquires(o)
release_called == now <= MaxTime /\ \E o \in ObserveChoice : Releases(o)
cleanup_called == now <= MaxTime /\ \E o \in ObserveChoice : Cleanups(o)

\* The clock goes on past MaxTime for as long as the wait_for in progress needs it.
LateTick ==
    /\ now >= MaxTime
    /\ Locked
    /\ ~Urgent
    /\ now' = now + 1
    /\ NoCompletion
    /\ UNCHANGED <<max_instances, warm, poolvars, lock_waiters, waiting, rejected,
                   mgrvars, taskvars, busvars, sbvars>>

LiveNext ==
    \/ acquire_called
    \/ release_called
    \/ cleanup_called
    \/ Granted
    \/ WaitEnd
    \/ Tick
    \/ LateTick

\* The event loop runs every callback that is ready (the hand-over of the lock, the
\* end of a wait_for) and time passes; nothing is assumed about the callers.
LiveFairness ==
    /\ WF_vars(Granted)
    /\ WF_vars(WaitEnd)
    /\ WF_vars(Tick)
    /\ WF_vars(LateTick)

SpecLive == Init /\ [][LiveNext]_vars /\ LiveFairness

\* C34 (as claimed): every call on the pool ends, and an acquire ends by returning
\* an instance or by raising Timeout (create_instance raising is outside the
\* claim's assumption).
C34_EveryCallEndsAsClaimed ==
    /\ [](last.op = "acquire" => last.outcome \in {"ok", "Timeout", "CreateError"})
    /\ Observed ~> ~Observed

\* What holds: every acquire, release and cleanup_expired call ends (it returns or
\* raises), whatever the other callers do.
C34_EveryCallEnds == Observed ~> ~Observed

\* ------------------------------------------------------------ C31
\* The pools registered under a name in which agent a holds an instance
HeldIn(a) ==
    {k \in 1..Len(pools) : a \in DOMAIN pool_objs[pools[k].pool].state.in_use}

\* C31: after release_agent_dependencies(agent) returns, the agent holds no
\* instance in any registered pool, whatever register_agent (re-registration with
\* another set included), get_dependency and release_dependency calls came before.
C31_AgentHoldsNothingAfterReleaseAll ==
    (mlast.op = "release_agent_dependencies" /\ mlast.outcome = "ok")
        => HeldIn(mlast.agent) = {}

\* What the loop of 385-386 does give: when the call returns, the agent holds
\* nothing in the pools of the names it was registered for when the call began.
C31_ReleasedWhatWasRegistered ==
    [][(running.op = "release_agent_dependencies" /\ running.rest = {}
        /\ mlast'.op = "release_agent_dependencies" /\ mlast'.outcome = "ok"
        /\ running.agent \in DOMAIN agent_dependencies)
          => \A k \in HeldIn(running.agent)' :
                 pools[k].name \notin agent_dependencies[running.agent]]_vars

\* ------------------------------------------------------------ C33
\* The step of release_agent_dependencies that deletes the agent's entry (387)
Forgets ==
    /\ running.op = "release_agent_dependencies" /\ running.rest = {}
    /\ running.agent \in DOMAIN agent_dependencies
    /\ running.agent \notin DOMAIN agent_dependencies'

\* C33: a register_agent(agent, names) that completes while a
\* release_agent_dependencies(agent) is in progress is not lost: the release never
\* deletes a registration that returned after it began, so the entry it deletes is
\* the set it iterated over (empty, or holding the name it released last).
C33_RegistrationSurvivesRelease ==
    [][Forgets => IF running.name = NoName
                  THEN agent_dependencies[running.agent] = {}
                  ELSE running.name \in agent_dependencies[running.agent]]_vars

\* ------------------------------------------------------------ C32
\* C32: two release_agent_dependencies calls for the same agent that overlap, both
\* suspended inside a pool release behind a waiting acquirer, both complete without
\* raising, and the agent ends up absent from the authorization map.
C32_OverlappingReleasesComplete ==
    mlast.op = "release_agent_dependencies"
        => /\ mlast.outcome = "ok"
           /\ mlast.agent \notin DOMAIN agent_dependencies

\* ------------------------------------------------------------ C38
\* C38: a handler that calls publish or recent on the same bus from inside its
\* dispatch does not deadlock: no frame keeps the buffer lock while a handler runs
\* or a nested publish is about to take it; the nested event is appended to the
\* buffer and every subscriber of its type is called before the nested publish
\* returns into the handler that called it; and every publish returns in the end.
C38_NestedCallsDoNotDeadlock ==
    /\ []((frames # <<>> /\ Top.phase # "locked") => ~BusLocked)
    /\ [][Len(frames) > 1
            => /\ (Top.phase = "locked" /\ frames' # frames)
                    => (buffer' # <<>> /\ buffer'[Len(buffer')] = Top.event)
               /\ Len(frames') < Len(frames)
                    => /\ blast'.op = "publish" /\ blast'.event = Top.event.id
                       /\ blast'.called = subs[Top.event.event_type]
                       /\ frames' = Popped
                       /\ InFrame(frames'[Len(frames')])]_vars
    /\ (frames # <<>>) ~> (frames = <<>>)

\* C38 witness: a publish called by a handler has returned into that handler; its
\* event is the newest of the buffer, behind the event the handler was called for,
\* and its own subscriber was called.
C38_Witness ==
    /\ blast.op = "publish" /\ frames # <<>>
    /\ blast.called # <<>>
    /\ Len(buffer) = 2
    /\ buffer[2].id = blast.event
    /\ buffer[1] = Top.event

\* ------------------------------------------------------------ C39
Terminal == {"succeeded", "failed"}

\* C39: each sandbox session follows created -> running -> {succeeded | failed},
\* where succeeded and failed are terminal: once a run on a session has finished, no
\* further run is started on that session.
C39_FinishedSessionIsNotRunAgain ==
    [][\A k \in 1..Len(sessions) :
          sessions[k].state \in Terminal => sessions'[k] = sessions[k]]_vars

\* What does hold: a session changes state only by a run on it, which takes it to
\* running and from there to succeeded or failed, or straight to failed when the
\* process could not be started.
C39_RunsMoveTheSession ==
    [][\A k \in 1..Len(sessions) :
          sessions'[k] # sessions[k]
              => \/ sessions'[k].state = "running" /\ srun'.session = k /\ srun = NoRun
                 \/ sessions[k].state = "running" /\ sessions'[k].state \in Terminal
                    /\ srun.session = k /\ srun' = NoRun
                 \/ sessions'[k].state = "failed" /\ slast'.op = "run" /\ srun = NoRun]_vars
====
